---- MODULE Spec2Model ----
(***************************************************************************)
(* fidesctl core: the interactive dataset annotator                        *)
(* (fidesctl/core/annotate_dataset.py).                                    *)
(*                                                                         *)
(* One behaviour is one run of annotate_dataset: the manifest, the two     *)
(* flags and the valid-category list are fixed by Init, the operator's     *)
(* responses are chosen step by step.  Strings typed by the operator are   *)
(* sequences of one-character strings, so that splitting on commas and     *)
(* trimming are computed as the code computes them.                        *)
(***************************************************************************)
EXTENDS Integers, Sequences, FiniteSets, TLC

VARIABLES
    datasets,             \* core_parse.ingest_manifests(dataset_file)["dataset"]
    annotate_all,         \* annotate_dataset's flag
    validate,             \* annotate_dataset's flag
    existing_categories,  \* the valid-category list fetched before the walk
    pc,                   \* position of the run
    di, ci, fi,           \* positions of the three for loops (0 = not started)
    current_dataset,      \* the local of that name; Unbound before the first iteration
    earlier,              \* history: the Dataset objects of the finished iterations
    output_dataset,       \* the local of that name
    written,              \* history: the dataset lists handed to write_manifest
    member,               \* dataset_member of the running prompt loop ("none" outside it)
    frame_validate,       \* the validate parameter of the innermost prompt-loop frame
    depth,                \* number of recursive prompt-loop frames above the walker's call
    quitAt,               \* history: path of the first confirmed quit (<<>> if none)
    event,                \* history: what the step just taken did
    lastPrompt,           \* history: path of the entity of the walker's latest prompt-loop call
    call                  \* a call of one of the pure functions: its arguments and result

vars == <<datasets, annotate_all, validate, existing_categories, pc, di, ci, fi,
          current_dataset, earlier, output_dataset, written, member,
          frame_validate, depth, quitAt, event, lastPrompt, call>>

-----------------------------------------------------------------------------
(* Bounds of the model *)

MaxDatasets == 2
MaxCollections == 2
MaxFields == 2
MaxEntities == 7
MaxRetries == 2
MaxCandidates == 2
MaxSchemas == 3
MaxTables == 2
MaxColumns == 2

-----------------------------------------------------------------------------
(* Operator input: raw lines, and how the prompt loop parses them *)

SkipToken == <<"s">>
QuitToken == <<"q">>

\* The raw lines the operator may type at a prompt.
Responses ==
    { <<"s">>,
      <<" ", "s", " ">>,
      <<"q">>,
      <<"a">>,
      <<"b">>,
      <<"a", ",", " ", "a", "!">> }

CommaAt(s) == { i \in 1..Len(s) : s[i] = "," }

Min(S) == CHOOSE x \in S : \A y \in S : x <= y

\* str.split(","): the pieces between the commas, empty pieces kept.
RECURSIVE Split(_)
Split(s) ==
    IF CommaAt(s) = {}
    THEN <<s>>
    ELSE LET i == Min(CommaAt(s))
         IN  <<SubSeq(s, 1, i - 1)>> \o Split(SubSeq(s, i + 1, Len(s)))

RECURSIVE LStrip(_)
LStrip(s) ==
    IF s # <<>> /\ s[1] = " " THEN LStrip(Tail(s)) ELSE s

RECURSIVE RStrip(_)
RStrip(s) ==
    IF s # <<>> /\ s[Len(s)] = " " THEN RStrip(SubSeq(s, 1, Len(s) - 1)) ELSE s

\* str.strip()
Strip(s) == RStrip(LStrip(s))

\* Mutant of ParseResponse: the pieces are not trimmed.
ParseNoStrip(raw) == Split(raw)

\* [input.strip() for input in click.prompt(msg).split(",")]
ParseResponse(raw) ==
    LET pieces == Split(raw)
    IN  [i \in 1..Len(pieces) |-> Strip(pieces[i])]

-----------------------------------------------------------------------------
(* The Category Validator *)

\* The characters a key may be made of, among those the operator can type.
KeyChars == {"a", "b", "s", "q", "x", "_", ".", "-"}

\* FidesKey.validate: a non-empty string of key characters.
FidesKeyValid(category) ==
    /\ Len(category) > 0
    /\ \A i \in 1..Len(category) : category[i] \in KeyChars

InList(category, valid_categories) ==
    \E i \in 1..Len(valid_categories) : valid_categories[i] = category

\* Mutant of CheckCategory: the membership test is lost.
CheckCategoryGrammarOnly(category, valid_categories) ==
    IF ~FidesKeyValid(category) THEN "FidesValidationError" ELSE "ok"

\* Mutant of CheckCategory: the membership test is inverted.
CheckCategoryInverted(category, valid_categories) ==
    IF ~FidesKeyValid(category) THEN "FidesValidationError"
    ELSE IF InList(category, valid_categories) THEN "ValueError"
    ELSE "ok"

\* One iteration of the validator's loop: "ok" or the exception it raises.
CheckCategory(category, valid_categories) ==
    IF ~FidesKeyValid(category) THEN "FidesValidationError"
    ELSE IF ~InList(category, valid_categories) THEN "ValueError"
    ELSE "ok"

\* Mutant of validate_data_categories: only the first category is checked.
ValidateFirstOnly(categories, valid_categories) ==
    IF categories = <<>> THEN "ok"
    ELSE CheckCategory(Head(categories), valid_categories)

\* validate_data_categories: "ok", or the exception of the first bad category.
RECURSIVE validate_data_categories(_, _)
validate_data_categories(categories, valid_categories) ==
    IF categories = <<>> THEN "ok"
    ELSE LET r == CheckCategory(Head(categories), valid_categories)
         IN  IF r # "ok" THEN r
             ELSE validate_data_categories(Tail(categories), valid_categories)

-----------------------------------------------------------------------------
(* The manifest: Dataset -> DatasetCollection -> DatasetField *)

Levels == {"dataset", "collection", "field"}

\* A label set that is already present in the input manifest.
PreLabel == << <<"x">> >>

\* pre[level] says which entities of a level carry PreLabel in the input:
\* 0 none, 1 those at odd positions, 2 those at even positions.
Labelled(pre, level, i) ==
    /\ pre[level] # 0
    /\ i % 2 = pre[level] % 2

InputLabels(pre, level, i) ==
    IF Labelled(pre, level, i) THEN PreLabel ELSE <<>>

MkField(pre, f) ==
    [name |-> f, data_categories |-> InputLabels(pre, "field", f)]

MkCollection(pre, c, nf) ==
    [name |-> c,
     data_categories |-> InputLabels(pre, "collection", c),
     fields |-> [f \in 1..nf |-> MkField(pre, f)]]

MkDataset(pre, d, nc, nf) ==
    [fides_key |-> d,
     name |-> d,
     data_categories |-> InputLabels(pre, "dataset", d),
     collections |-> [c \in 1..nc |-> MkCollection(pre, c, nf)]]

\* Number of datasets, collections and fields of a manifest of that shape.
Entities(nd, nc, nf) == nd * (1 + nc * (1 + nf))

Shapes ==
    { sh \in (0..MaxDatasets) \X (0..MaxCollections) \X (0..MaxFields) :
        Entities(sh[1], sh[2], sh[3]) <= MaxEntities }

\* The manifests whose entries all have the Dataset shape: nd datasets of nc
\* collections of nf fields each.
WellFormedManifests ==
    { [d \in 1..sh[1] |-> MkDataset(pre, d, sh[2], sh[3])] :
        sh \in Shapes, pre \in [Levels -> 0..2] }

\* An entry that lacks the key of a Dataset.
NoKey == -1
Malformed ==
    [fides_key |-> NoKey, name |-> NoKey, data_categories |-> <<>>, collections |-> <<>>]

\* Dataset(**dataset) constructs the object; it raises on an entry without a key.
Deserializes(dataset) == dataset.fides_key # NoKey

\* The input manifests: the well-formed ones, and those with one entry malformed.
Manifests ==
    WellFormedManifests
    \cup UNION { { [m EXCEPT ![k] = Malformed] : k \in 1..Len(m) } :
                    m \in WellFormedManifests }

\* The valid-category lists the resource lister may return.
ValidLists == { << <<"a">> >> }

\* current_dataset before the first iteration of the dataset loop binds it.
Unbound == [fides_key |-> 0, name |-> 0, data_categories |-> <<>>, collections |-> <<>>]

-----------------------------------------------------------------------------
(* History of the step just taken *)

\* op: what the step did; raw: the line the operator typed in it; value: the
\* list a return handed to the walker; validated: whether the step ran the
\* Category Validator; retried: whether a return or abort came from a recursive
\* frame, that is after a re-prompt of the same entity.
Ev(op, raw, value, validated, retried) ==
    [op |-> op, raw |-> raw, value |-> value, validated |-> validated,
     retried |-> retried]

Walk == Ev("walk", <<>>, <<>>, FALSE, FALSE)

\* No pure function is being called.
NoCall == [fn |-> "none"]

\* The operator's answers to click.confirm.
Yes == <<"y">>
No == <<"n">>

Init ==
    /\ datasets \in Manifests
    /\ annotate_all \in BOOLEAN
    /\ validate \in BOOLEAN
    /\ existing_categories \in ValidLists
    /\ pc = "datasets"
    /\ di = 0 /\ ci = 0 /\ fi = 0
    /\ current_dataset = Unbound
    /\ earlier = <<>>
    /\ output_dataset = <<>>
    /\ written = <<>>
    /\ member = "none"
    /\ frame_validate = TRUE
    /\ depth = 0
    /\ quitAt = <<>>
    /\ event = Ev("init", <<>>, <<>>, FALSE, FALSE)
    /\ lastPrompt = <<>>
    /\ call = NoCall

-----------------------------------------------------------------------------
(* The Annotation Walker *)

\* Mutant of Missing: the emptiness test is lost, every entity counts as unlabelled.
MissingAlways(data_categories) == TRUE

\* `not x.data_categories`
Missing(data_categories) == data_categories = <<>>

\* The entity the walker is at, as a path of positions.
Path(level) ==
    CASE level = "dataset" -> <<di>>
      [] level = "collection" -> <<di, ci>>
      [] level = "field" -> <<di, ci, fi>>

\* The walker's call get_data_categories_annotation(dataset_member=...,
\* valid_categories=existing_categories, validate=validate): the prompt is shown.
CallPrompt(level) ==
    /\ pc' = "prompt"
    /\ member' = level
    /\ frame_validate' = validate
    /\ depth' = 0
    /\ event' = Ev("call", <<>>, <<>>, FALSE, FALSE)

NoPrompt ==
    /\ member' = "none"
    /\ frame_validate' = TRUE
    /\ depth' = 0

\* for dataset in datasets: one more iteration, up to the dataset-level prompt.
ForDataset ==
    /\ pc = "datasets"
    /\ di < Len(datasets)
    /\ IF Deserializes(datasets[di + 1])
       THEN /\ di' = di + 1
            /\ ci' = 0 /\ fi' = 0
            /\ current_dataset' = datasets[di + 1]
            /\ earlier' = IF current_dataset = Unbound THEN earlier
                          ELSE Append(earlier, current_dataset)
            /\ IF annotate_all /\ Missing(datasets[di + 1].data_categories)
               THEN CallPrompt("dataset") /\ lastPrompt' = <<di + 1>>
               ELSE pc' = "tables" /\ NoPrompt /\ event' = Walk /\ UNCHANGED lastPrompt
       ELSE /\ pc' = "crashed"
            /\ event' = Ev("ManifestFormatError", <<>>, <<>>, FALSE, FALSE)
            /\ UNCHANGED <<di, ci, fi, current_dataset, earlier, member,
                           frame_validate, depth, lastPrompt>>
    /\ UNCHANGED <<datasets, annotate_all, validate, existing_categories,
                   output_dataset, written, quitAt, call>>

\* Mutant of LoopElse: every Dataset object of the walk is appended.
LoopElseAll ==
    /\ pc = "datasets"
    /\ di = Len(datasets)
    /\ IF current_dataset = Unbound
       THEN /\ pc' = "crashed"
            /\ event' = Ev("UnboundLocalError", <<>>, <<>>, FALSE, FALSE)
            /\ UNCHANGED output_dataset
       ELSE /\ pc' = "write"
            /\ output_dataset' = output_dataset \o Append(earlier, current_dataset)
            /\ event' = Walk
    /\ UNCHANGED <<datasets, annotate_all, validate, existing_categories, di, ci, fi,
                   current_dataset, earlier, written, member, frame_validate,
                   depth, quitAt, lastPrompt, call>>

\* The dataset loop ran out without a break: its else clause.
LoopElse ==
    /\ pc = "datasets"
    /\ di = Len(datasets)
    /\ IF current_dataset = Unbound
       THEN /\ pc' = "crashed"
            /\ event' = Ev("UnboundLocalError", <<>>, <<>>, FALSE, FALSE)
            /\ UNCHANGED output_dataset
       ELSE /\ pc' = "write"
            /\ output_dataset' = Append(output_dataset, current_dataset)
            /\ event' = Walk
    /\ UNCHANGED <<datasets, annotate_all, validate, existing_categories, di, ci, fi,
                   current_dataset, earlier, written, member, frame_validate,
                   depth, quitAt, lastPrompt, call>>

\* Mutant of ForTable: the collection prompt is not gated by annotate_all.
ForTableUngated ==
    /\ pc = "tables"
    /\ IF ci < Len(current_dataset.collections)
       THEN /\ ci' = ci + 1
            /\ fi' = 0
            /\ IF Missing(current_dataset.collections[ci + 1].data_categories)
               THEN CallPrompt("collection") /\ lastPrompt' = <<di, ci + 1>>
               ELSE pc' = "fields" /\ NoPrompt /\ event' = Walk /\ UNCHANGED lastPrompt
       ELSE /\ pc' = "datasets"
            /\ NoPrompt /\ event' = Walk
            /\ UNCHANGED <<ci, fi, lastPrompt>>
    /\ UNCHANGED <<datasets, annotate_all, validate, existing_categories, di,
                   current_dataset, earlier, output_dataset, written, quitAt, call>>

\* for table in current_dataset.collections: one more iteration, or the end of the loop.
ForTable ==
    /\ pc = "tables"
    /\ IF ci < Len(current_dataset.collections)
       THEN /\ ci' = ci + 1
            /\ fi' = 0
            /\ IF annotate_all
                  /\ Missing(current_dataset.collections[ci + 1].data_categories)
               THEN CallPrompt("collection") /\ lastPrompt' = <<di, ci + 1>>
               ELSE pc' = "fields" /\ NoPrompt /\ event' = Walk /\ UNCHANGED lastPrompt
       ELSE /\ pc' = "datasets"
            /\ NoPrompt /\ event' = Walk
            /\ UNCHANGED <<ci, fi, lastPrompt>>
    /\ UNCHANGED <<datasets, annotate_all, validate, existing_categories, di,
                   current_dataset, earlier, output_dataset, written, quitAt, call>>

\* for field in table.fields: one more iteration, or the end of the loop.
ForField ==
    /\ pc = "fields"
    /\ IF fi < Len(current_dataset.collections[ci].fields)
       THEN /\ fi' = fi + 1
            /\ IF Missing(current_dataset.collections[ci].fields[fi + 1].data_categories)
               THEN CallPrompt("field") /\ lastPrompt' = <<di, ci, fi + 1>>
               ELSE pc' = "fields" /\ NoPrompt /\ event' = Walk /\ UNCHANGED lastPrompt
       ELSE /\ pc' = "tables"
            /\ NoPrompt /\ event' = Walk
            /\ UNCHANGED <<fi, lastPrompt>>
    /\ UNCHANGED <<datasets, annotate_all, validate, existing_categories, di, ci,
                   current_dataset, earlier, output_dataset, written, quitAt, call>>

\* manifests.write_manifest(dataset_file, output_dataset, "dataset")
WriteManifest ==
    /\ pc = "write"
    /\ written' = Append(written, output_dataset)
    /\ pc' = "done"
    /\ event' = Walk
    /\ UNCHANGED <<datasets, annotate_all, validate, existing_categories, di, ci, fi,
                   current_dataset, earlier, output_dataset, member, frame_validate,
                   depth, quitAt, lastPrompt, call>>

-----------------------------------------------------------------------------
(* The Prompt Loop: get_data_categories_annotation *)

\* The validate argument of the recursive calls: they pass dataset_member and
\* valid_categories only, so the parameter takes its default.
RetryValidate(v) == TRUE

\* The call returns `value` through every frame to the walker, which assigns it
\* to the entity and goes on with the loop below it.
Return(op, raw, value, validated) ==
    /\ event' = Ev(op, raw, value, validated, depth > 0)
    /\ NoPrompt
    /\ CASE member = "dataset" ->
              /\ current_dataset' = [current_dataset EXCEPT !.data_categories = value]
              /\ pc' = "tables"
              /\ UNCHANGED <<di, ci, fi>>
         [] member = "collection" ->
              /\ current_dataset' =
                    [current_dataset EXCEPT !.collections[ci].data_categories = value]
              /\ pc' = "fields"
              /\ UNCHANGED <<di, ci, fi>>
         [] member = "field" ->
              /\ current_dataset' =
                    [current_dataset EXCEPT
                        !.collections[ci].fields[fi].data_categories = value]
              /\ pc' = "fields"
              /\ UNCHANGED <<di, ci, fi>>
    /\ UNCHANGED quitAt

\* Mutant of Reprompt: the recursive call is lost, the frame returns an empty list.
ReturnEmpty(op, raw, validated) == Return(op, raw, <<>>, validated)

\* Mutant of Reprompt: the frame returns the response it has just read.
ReturnResponse(op, raw, validated) == Return(op, raw, ParseResponse(raw), validated)

\* A recursive call get_data_categories_annotation(dataset_member, valid_categories):
\* the same prompt for the same entity, one frame deeper.
Reprompt(op, raw, validated) ==
    /\ depth < MaxRetries
    /\ pc' = "prompt"
    /\ depth' = depth + 1
    /\ frame_validate' = RetryValidate(frame_validate)
    /\ event' = Ev(op, raw, <<>>, validated, FALSE)
    /\ UNCHANGED <<member, di, ci, fi, current_dataset, quitAt>>

\* Mutant of Abort: the except clause of a field prompt goes back to the same
\* field instead of leaving the field loop.
AbortRetriesField ==
    /\ event' = Ev("abort", Yes, <<>>, FALSE, depth > 0)
    /\ NoPrompt
    /\ quitAt' = IF quitAt = <<>> THEN Path(member) ELSE quitAt
    /\ pc' = CASE member = "dataset" -> "write"
               [] member = "collection" -> "datasets"
               [] member = "field" -> "fields"
    /\ fi' = IF member = "field" THEN fi - 1 ELSE fi
    /\ UNCHANGED <<di, ci, current_dataset>>

\* raise AnnotationAbortError: every frame unwinds to the walker's except clause
\* around the call, whose break leaves the loop that encloses it.
Abort ==
    /\ event' = Ev("abort", Yes, <<>>, FALSE, depth > 0)
    /\ NoPrompt
    /\ quitAt' = IF quitAt = <<>> THEN Path(member) ELSE quitAt
    /\ pc' = CASE member = "dataset" -> "write"
               [] member = "collection" -> "datasets"
               [] member = "field" -> "tables"
    /\ UNCHANGED <<di, ci, fi, current_dataset>>

\* `user_response == ["s"]`
IsSkip(user_response) == user_response = <<SkipToken>>

\* `user_response == ["q"]`
IsQuit(user_response) == user_response = <<QuitToken>>

\* The operator answers the prompt with the line `raw`.
Respond(raw) ==
    /\ pc = "prompt"
    /\ LET user_response == ParseResponse(raw)
       IN  IF IsSkip(user_response)
           THEN Return("skip", raw, <<>>, FALSE)
           ELSE IF IsQuit(user_response)
           THEN /\ pc' = "confirm"
                /\ event' = Ev("quit", raw, <<>>, FALSE, FALSE)
                /\ UNCHANGED <<member, frame_validate, depth, di, ci, fi,
                               current_dataset, quitAt>>
           ELSE IF frame_validate
           THEN IF validate_data_categories(user_response, existing_categories) = "ok"
                THEN Return("accept", raw, user_response, TRUE)
                ELSE Reprompt("reject", raw, TRUE)
           ELSE Return("accept", raw, user_response, FALSE)
    /\ UNCHANGED <<datasets, annotate_all, validate, existing_categories,
                   earlier, output_dataset, written, lastPrompt, call>>

\* The operator answers click.confirm after a quit token.
Confirm(yes) ==
    /\ pc = "confirm"
    /\ IF yes
       THEN /\ Abort
       ELSE Reprompt("decline", No, FALSE)
    /\ UNCHANGED <<datasets, annotate_all, validate, existing_categories,
                   earlier, output_dataset, written, lastPrompt, call>>

-----------------------------------------------------------------------------

Next ==
    \/ ForDataset
    \/ LoopElse
    \/ ForTable
    \/ ForField
    \/ \E raw \in Responses : Respond(raw)
    \/ \E yes \in BOOLEAN : Confirm(yes)
    \/ WriteManifest

Spec == Init /\ [][Next]_vars

-----------------------------------------------------------------------------
(* Vocabulary of the properties *)

\* The Dataset objects the walk has constructed so far, in manifest order.
Visited ==
    IF current_dataset = Unbound THEN earlier ELSE Append(earlier, current_dataset)

\* The paths of the datasets, collections and fields of a dataset list.
EntityPaths(ds) ==
    { <<d>> : d \in 1..Len(ds) }
    \cup UNION { { <<d, c>> : c \in 1..Len(ds[d].collections) } : d \in 1..Len(ds) }
    \cup UNION { UNION { { <<d, c, f>> : f \in 1..Len(ds[d].collections[c].fields) } :
                         c \in 1..Len(ds[d].collections) } : d \in 1..Len(ds) }

\* The label list of the entity at path p of a dataset list.
LabelsAt(ds, p) ==
    CASE Len(p) = 1 -> ds[p[1]].data_categories
      [] Len(p) = 2 -> ds[p[1]].collections[p[2]].data_categories
      [] Len(p) = 3 -> ds[p[1]].collections[p[2]].fields[p[3]].data_categories

\* p comes before q in the depth-first order of the manifest.
Before(p, q) ==
    \/ \E k \in 1..Len(p) :
          /\ k <= Len(q)
          /\ p[k] < q[k]
          /\ \A j \in 1..(k - 1) : p[j] = q[j]
    \/ /\ Len(p) < Len(q)
       /\ \A j \in 1..Len(p) : p[j] = q[j]

\* Every label of the list is a member of the valid-category list.
AllValid(labels) ==
    \A i \in 1..Len(labels) : InList(labels[i], existing_categories)

Halted == pc \in {"done", "crashed"}

\* Every entry of the input manifest has the Dataset shape.
Parses == \A i \in 1..Len(datasets) : Deserializes(datasets[i])

Prompting == pc \in {"prompt", "confirm"}

-----------------------------------------------------------------------------
(* Properties of the Annotation Walker *)

\* C1: when a run over two or more datasets in which no quit was confirmed
\* finishes, the written manifest is the list of all the input's datasets, in
\* manifest order, each with the labels the walk collected for it.
C1_EveryDatasetWritten ==
    (pc = "done" /\ quitAt = <<>> /\ Len(datasets) >= 2)
        => (Len(written) = 1 /\ written[1] = Visited)

\* What the manifest must hold for dataset i after a quit confirmed at quitAt:
\* the labels collected on the entities before the quit, the input's labels on
\* the entity of the quit and on every entity after it.
KeptAfterQuit(i) ==
    LET Keep(p) == IF Before(p, quitAt) THEN LabelsAt(Visited, p)
                   ELSE LabelsAt(datasets, p)
        d == datasets[i]
    IN  [d EXCEPT
           !.data_categories = Keep(<<i>>),
           !.collections =
              [c \in 1..Len(d.collections) |->
                 [d.collections[c] EXCEPT
                    !.data_categories = Keep(<<i, c>>),
                    !.fields =
                       [f \in 1..Len(d.collections[c].fields) |->
                          [d.collections[c].fields[f] EXCEPT
                             !.data_categories = Keep(<<i, c, f>>)]]]]]

\* C2: a run in which a quit was confirmed ends without an exception, and the
\* manifest it wrote holds every dataset visited up to the quit with the labels
\* accepted before the quit, every entity from the quit on with the labels of
\* the input.
C2_QuitKeepsProgress ==
    (Halted /\ quitAt # <<>> /\ Parses)
        => /\ pc = "done"
           /\ Len(written) = 1
           /\ Len(written[1]) >= quitAt[1]
           /\ \A i \in 1..Len(written[1]) :
                 /\ i <= Len(datasets)
                 /\ written[1][i] = IF i <= quitAt[1] THEN KeptAfterQuit(i)
                                    ELSE datasets[i]

\* C3: once a quit has been confirmed at a collection prompt or at a field
\* prompt, no prompt is shown any more.
C3_NoPromptAfterQuit ==
    Len(quitAt) \in {2, 3} => ~Prompting

\* C4: the manifest is written at most once, only by a run that has halted, and
\* every run that has halted has written it.
C4_WrittenOnceAfterHalt ==
    Parses
        => /\ Len(written) <= 1
           /\ Len(written) = 1 => pc = "done"
           /\ Halted => Len(written) = 1

\* C5: when the run has ended, by completion or by a confirmed quit, the last
\* dataset the walk processed is in the written manifest.
C5_LastProcessedWritten ==
    (pc = "done" /\ current_dataset # Unbound)
        => \E i \in 1..Len(written[1]) : written[1][i] = current_dataset


\* The label list of the entity the prompt loop is running for.
MemberLabels == LabelsAt(<<current_dataset>>, <<1>> \o Tail(Path(member)))

\* C6: a label list that is not empty is never changed by a step of the walk,
\* and no prompt is ever shown for an entity whose label list is not empty.
C6_LabelledNeverTouched ==
    [][ /\ LET before == Visited
               after == Visited'
           IN  \/ after = before
               \/ \A p \in EntityPaths(before) :
                     LabelsAt(before, p) # <<>>
                         => LabelsAt(after, p) = LabelsAt(before, p)
        /\ Prompting' => MemberLabels' = <<>> ]_vars

\* C6 witness: the walk has passed a field that came labelled and has labelled
\* another field of the same dataset.
C6_Witness ==
    /\ pc = "done"
    /\ \E p \in EntityPaths(Visited) :
          /\ Len(p) = 3
          /\ LabelsAt(datasets, p) = PreLabel
          /\ LabelsAt(Visited, p) = PreLabel
    /\ \E p \in EntityPaths(Visited) :
          /\ Len(p) = 3
          /\ LabelsAt(datasets, p) = <<>>
          /\ LabelsAt(Visited, p) # <<>>

\* C7: in a run with validation enabled, every label list that differs from
\* the input's holds only members of the valid-category list.
C7_AssignedLabelsValid ==
    validate =>
        \A p \in EntityPaths(Visited) :
            \/ LabelsAt(Visited, p) = LabelsAt(datasets, p)
            \/ AllValid(LabelsAt(Visited, p))

\* C7 witness: with validation enabled, a response was accepted and assigned
\* after a re-prompt of the same entity.
C7_Witness ==
    /\ validate
    /\ event.op = "accept"
    /\ event.retried
    /\ event.value # <<>>
    /\ \E p \in EntityPaths(Visited) : LabelsAt(Visited, p) = event.value

-----------------------------------------------------------------------------
(* Properties of the Prompt Loop *)

\* C8: in a run with validation disabled, a response that is neither the skip
\* token nor the quit token makes the call return the parsed list, without
\* running the validator and without another prompt.
C8_NoValidationWhenDisabled ==
    [][ ( /\ pc = "prompt"
          /\ ~validate
          /\ ~IsSkip(ParseResponse(event'.raw))
          /\ ~IsQuit(ParseResponse(event'.raw)) )
        => ( /\ event'.op = "accept"
             /\ event'.value = ParseResponse(event'.raw)
             /\ ~event'.validated
             /\ ~Prompting' ) ]_vars

\* C9: the answer to the quit confirmation decides the step: yes raises the
\* abort, which hands no value to the walker and assigns nothing; no shows the
\* prompt again for the same entity with the same valid-category list, and
\* assigns nothing.
C9_QuitConfirmOrReprompt ==
    [][ pc = "confirm"
        => /\ event'.raw \in {Yes, No}
           /\ current_dataset' = current_dataset
           /\ existing_categories' = existing_categories
           /\ event'.raw = Yes
                 => /\ event'.op = "abort"
                    /\ event'.value = <<>>
                    /\ member' = "none"
                    /\ quitAt' # <<>>
                    /\ ~Prompting'
           /\ event'.raw = No
                 => /\ event'.op = "decline"
                    /\ pc' = "prompt"
                    /\ member' = member
                    /\ <<di, ci, fi>>' = <<di, ci, fi>>
                    /\ quitAt' = quitAt ]_vars

\* C9 witness: a quit was confirmed on a re-prompt, after an earlier quit at
\* the same entity was declined or a response to it was rejected.
C9_Witness ==
    /\ event.op = "abort"
    /\ event.retried
    /\ ~Prompting

\* C10: a response whose trimmed text is the skip token makes the call return
\* the empty list at once, without running the validator and without another
\* prompt, whatever the validation setting and the depth of re-prompts.
C10_SkipReturnsEmpty ==
    [][ (pc = "prompt" /\ Strip(event'.raw) = SkipToken)
        => /\ event'.op = "skip"
           /\ event'.value = <<>>
           /\ ~event'.validated
           /\ ~Prompting'
           /\ current_dataset' = current_dataset ]_vars

\* C10 witness: a padded skip token was given on a re-prompt of a run with
\* validation disabled, and the call returned.
C10_Witness ==
    /\ event.op = "skip"
    /\ event.raw = <<" ", "s", " ">>
    /\ event.retried
    /\ ~validate


\* Every piece of the list has the key grammar and is in the valid-category list.
AllValidKeys(labels) ==
    \A i \in 1..Len(labels) :
        FidesKeyValid(labels[i]) /\ InList(labels[i], existing_categories)

C17_ValidationFailureStaysInside ==
    [][ /\ ( /\ pc = "prompt"
             /\ validate
             /\ LET r == ParseResponse(event'.raw)
                IN  ~IsSkip(r) /\ ~IsQuit(r) /\ ~AllValidKeys(r) )
           => /\ event'.op = "reject"
              /\ event'.validated
              /\ pc' = "prompt"
              /\ member' = member
              /\ <<di, ci, fi>>' = <<di, ci, fi>>
              /\ current_dataset' = current_dataset
        /\ (validate /\ event'.op = "accept") => AllValidKeys(event'.value)
        /\ pc' = "crashed"
           => event'.op \notin {"FidesValidationError", "ValueError"} ]_vars

\* C17 witness: with validation enabled, a response with a piece outside the
\* key grammar was rejected and the field is prompted again.
C17_Witness ==
    /\ validate
    /\ event.op = "reject"
    /\ event.raw = <<"a", ",", " ", "a", "!">>
    /\ pc = "prompt"
    /\ member = "field"

-----------------------------------------------------------------------------
(* Further properties of the Annotation Walker *)

\* C13: when an entry of the manifest fails to deserialize, the run has shown
\* no prompt, has assigned no label and has not written the manifest.
C13_FormatErrorBeforeWork ==
    (pc = "crashed" /\ event.op = "ManifestFormatError")
        => /\ lastPrompt = <<>>
           /\ written = <<>>
           /\ \A p \in EntityPaths(Visited) :
                 LabelsAt(Visited, p) = LabelsAt(datasets, p)

\* C16: with annotate-all off only fields are prompted for, and the labels of
\* datasets and collections stay those of the input; a field the loops reach
\* with no labels is prompted for, and with annotate-all on so is a dataset or
\* a collection the loops reach with no labels.
C16_AnnotateAllGate ==
    [][ /\ (~annotate_all /\ Prompting') => member' = "field"
        /\ ~annotate_all
           => LET after == Visited'
              IN  \/ after = Visited
                  \/ \A p \in EntityPaths(after) :
                        Len(p) < 3 => LabelsAt(after, p) = LabelsAt(datasets, p)
        /\ ( /\ pc = "fields"
             /\ fi' = fi + 1
             /\ current_dataset.collections[ci].fields[fi + 1].data_categories = <<>> )
           => /\ event'.op = "call"
              /\ member' = "field"
              /\ lastPrompt' = <<di, ci, fi + 1>>
        /\ ( /\ annotate_all
             /\ pc = "tables"
             /\ ci' = ci + 1
             /\ current_dataset.collections[ci + 1].data_categories = <<>> )
           => /\ event'.op = "call"
              /\ member' = "collection"
              /\ lastPrompt' = <<di, ci + 1>>
        /\ ( /\ annotate_all
             /\ pc = "datasets"
             /\ di' = di + 1
             /\ datasets[di + 1].data_categories = <<>> )
           => /\ event'.op = "call"
              /\ member' = "dataset"
              /\ lastPrompt' = <<di + 1>> ]_vars

\* C16 witness: a run with annotate-all off has finished, having labelled a
\* field under a dataset and a collection that have no labels.
C16_Witness ==
    /\ ~annotate_all
    /\ pc = "done"
    /\ Len(lastPrompt) = 3
    /\ current_dataset.data_categories = <<>>
    /\ \E c \in 1..Len(current_dataset.collections) :
          /\ current_dataset.collections[c].data_categories = <<>>
          /\ \E f \in 1..Len(current_dataset.collections[c].fields) :
                current_dataset.collections[c].fields[f].data_categories # <<>>
                /\ datasets[di].collections[c].fields[f].data_categories = <<>>

\* C18: every prompt-loop call of the walker is for the entity the loops are
\* at, and that entity comes after the entity of the previous call in the
\* depth-first order of the manifest.
C18_PromptsDepthFirst ==
    [][ /\ event'.op = "call"
           => /\ lastPrompt' = CASE member' = "dataset" -> <<di'>>
                                  [] member' = "collection" -> <<di', ci'>>
                                  [] member' = "field" -> <<di', ci', fi'>>
              /\ Before(lastPrompt, lastPrompt')
        /\ lastPrompt' # lastPrompt => event'.op = "call" ]_vars

\* C18 witness: with annotate-all on, the walk went on after a confirmed quit
\* and its latest prompt is for a field of the second dataset.
C18_Witness ==
    /\ annotate_all
    /\ quitAt # <<>>
    /\ quitAt[1] = 1
    /\ Len(lastPrompt) = 3
    /\ lastPrompt[1] = 2
    /\ pc = "done"

-----------------------------------------------------------------------------
(* The Category Validator on its own *)

\* The walker's variables, which no pure function touches.
walkerVars == <<datasets, annotate_all, validate, existing_categories, pc, di, ci, fi,
                current_dataset, earlier, output_dataset, written, member,
                frame_validate, depth, quitAt, event, lastPrompt>>

\* The walker is not running.
Idle ==
    /\ datasets = <<>>
    /\ annotate_all = FALSE
    /\ validate = TRUE
    /\ existing_categories = <<>>
    /\ pc = "idle"
    /\ di = 0 /\ ci = 0 /\ fi = 0
    /\ current_dataset = Unbound
    /\ earlier = <<>>
    /\ output_dataset = <<>>
    /\ written = <<>>
    /\ member = "none"
    /\ frame_validate = TRUE
    /\ depth = 0
    /\ quitAt = <<>>
    /\ event = Ev("init", <<>>, <<>>, FALSE, FALSE)
    /\ lastPrompt = <<>>

\* Candidate labels: two keys, a string outside the key grammar, the empty string.
Candidates == { <<"a">>, <<"b">>, <<"a", "!">>, <<>> }

CandidateLists == UNION { [1..n -> Candidates] : n \in 0..MaxCandidates }

\* Valid-category lists, one of them holding a string outside the key grammar.
ReferenceLists ==
    { <<>>, << <<"a">> >>, << <<"a">>, <<"b">> >>, << <<"a">>, <<"a", "!">> >> }

InitValidator ==
    /\ Idle
    /\ \E c \in CandidateLists, v \in ReferenceLists :
          call = [fn |-> "validate_data_categories", categories |-> c,
                  valid_categories |-> v, result |-> "pending"]

\* validate_data_categories(categories, valid_categories) runs to its end.
ValidateCall ==
    /\ call.fn = "validate_data_categories"
    /\ call.result = "pending"
    /\ call' = [call EXCEPT !.result =
                    validate_data_categories(call.categories, call.valid_categories)]
    /\ UNCHANGED walkerVars

NextValidator == ValidateCall

SpecValidator == InitValidator /\ [][NextValidator]_vars

\* C12: validate_data_categories returns without raising exactly when every
\* candidate has the key grammar and is in the valid-category list, and it
\* leaves its arguments and everything else as they were.
C12_ValidatorAllOrNothing ==
    [][ /\ call'.result = "ok"
           <=> \A i \in 1..Len(call.categories) :
                  /\ FidesKeyValid(call.categories[i])
                  /\ \E j \in 1..Len(call.valid_categories) :
                        call.valid_categories[j] = call.categories[i]
        /\ call'.categories = call.categories
        /\ call'.valid_categories = call.valid_categories
        /\ UNCHANGED walkerVars ]_vars

\* C12 witness: a call failed on its second candidate, a member of the valid
\* list that is outside the key grammar, after a valid first candidate.
C12_Witness ==
    /\ call.fn = "validate_data_categories"
    /\ call.result = "FidesValidationError"
    /\ call.categories = << <<"a">>, <<"a", "!">> >>
    /\ call.valid_categories = << <<"a">>, <<"a", "!">> >>


-----------------------------------------------------------------------------
(* The dataset generator *)

\* Names the fixtures are made of.
SystemSchemas == {"information_schema", "mysql", "performance_schema", "sys"}
SchemaNames == SystemSchemas \cup {"public"}
TableNames == {"users", "orders"}
ColumnNames == {"id", "email"}

\* The sequences of at most n distinct elements of S.
DistinctSeqs(S, n) ==
    { q \in UNION { [1..k -> S] : k \in 0..n } :
        \A i, j \in 1..Len(q) : i # j => q[i] # q[j] }

\* An engine: its dialect name and what its inspector answers. The system
\* schemas share one table list, the other schemas share another, and every
\* table has the same columns.
Engines ==
    [ dialect : {"mysql", "postgresql"},
      schema_names : DistinctSeqs(SchemaNames, MaxSchemas),
      system_tables : DistinctSeqs(TableNames, MaxTables),
      user_tables : DistinctSeqs(TableNames, MaxTables),
      columns : DistinctSeqs(ColumnNames, MaxColumns) ]

\* inspector.get_table_names(schema=schema)
get_table_names(engine, schema) ==
    IF schema \in SystemSchemas THEN engine.system_tables ELSE engine.user_tables

\* inspector.get_columns(table, schema=schema): one dictionary per column.
get_columns(engine, table, schema) ==
    [i \in 1..Len(engine.columns) |-> [name |-> engine.columns[i], table |-> table]]

\* A Python dict: its items in insertion order, the keys distinct.
Keys(d) == { d[i].key : i \in 1..Len(d) }

Lookup(d, k) == d[CHOOSE i \in 1..Len(d) : d[i].key = k].value

\* d[k] = v
DictPut(d, k, v) ==
    IF k \in Keys(d)
    THEN [i \in 1..Len(d) |-> IF d[i].key = k THEN [key |-> k, value |-> v] ELSE d[i]]
    ELSE Append(d, [key |-> k, value |-> v])

\* Mutant of excluded_schemas: the engine's dialect is not looked at.
ExcludedForEveryDialect(engine) ==
    <<"information_schema", "mysql", "performance_schema", "sys">>

excluded_schemas(engine) ==
    <<"information_schema">>
        \o IF engine.dialect = "mysql"
           THEN <<"mysql", "performance_schema", "sys">>
           ELSE <<>>

\* The inner loop over inspector.get_table_names(schema=schema).
RECURSIVE AddTables(_, _, _, _)
AddTables(engine, schema, tables, d) ==
    IF tables = <<>> THEN d
    ELSE LET table == Head(tables)
             columns == get_columns(engine, table, schema)
         IN  AddTables(engine, schema, Tail(tables),
                       DictPut(d, schema \o "." \o table,
                               [i \in 1..Len(columns) |-> columns[i].name]))

\* The outer loop over schemas.
RECURSIVE AddSchemas(_, _, _)
AddSchemas(engine, schemas, db_tables) ==
    IF schemas = <<>> THEN db_tables
    ELSE LET schema == Head(schemas)
         IN  AddSchemas(engine, Tail(schemas),
                        DictPut(db_tables, schema,
                                AddTables(engine, schema,
                                          get_table_names(engine, schema), <<>>)))

get_db_collections_and_fields(engine) ==
    LET excluded == excluded_schemas(engine)
        schemas == SelectSeq(engine.schema_names,
                             LAMBDA schema : ~InList(schema, excluded))
    IN  AddSchemas(engine, schemas, <<>>)

\* Mutant of DatasetFieldOf: the field is labelled with its own name.
DatasetFieldLabelled(column) ==
    [name |-> column,
     description |-> "Fides Generated Description for Column: " \o column,
     data_categories |-> <<column>>]

DatasetFieldOf(column) ==
    [name |-> column,
     description |-> "Fides Generated Description for Column: " \o column,
     data_categories |-> <<>>]

DatasetCollectionOf(table_name, table) ==
    [name |-> table_name,
     description |-> "Fides Generated Description for Table: " \o table_name,
     fields |-> [c \in 1..Len(table) |-> DatasetFieldOf(table[c])]]

create_dataset_collections(db_tables) ==
    [s \in 1..Len(db_tables) |->
        LET schema_name == db_tables[s].key
            schema == db_tables[s].value
        IN  [fides_key |-> schema_name,
             name |-> schema_name,
             description |-> "Fides Generated Description for Schema: " \o schema_name,
             collections |->
                [t \in 1..Len(schema) |->
                    DatasetCollectionOf(schema[t].key, schema[t].value)]]]

InitGenerate ==
    /\ Idle
    /\ \E engine \in Engines :
          call = [fn |-> "generate_dataset", db_engine |-> engine, at |-> 101,
                  db_collections |-> <<>>, collections |-> <<>>, file |-> <<>>]

\* db_collections = get_db_collections_and_fields(db_engine)
GetDbCollectionsAndFields ==
    /\ call.fn = "generate_dataset"
    /\ call.at = 101
    /\ call' = [call EXCEPT !.at = 102,
                    !.db_collections = get_db_collections_and_fields(call.db_engine)]
    /\ UNCHANGED walkerVars

\* collections = create_dataset_collections(db_collections)
CreateDatasetCollections ==
    /\ call.fn = "generate_dataset"
    /\ call.at = 102
    /\ call' = [call EXCEPT !.at = 103,
                    !.collections = create_dataset_collections(call.db_collections)]
    /\ UNCHANGED walkerVars

\* manifests.write_manifest(file_name, [i.dict() for i in collections], "dataset")
GenerateWrite ==
    /\ call.fn = "generate_dataset"
    /\ call.at = 103
    /\ call' = [call EXCEPT !.at = 104,
                    !.file = [i \in 1..Len(call.collections) |-> call.collections[i]]]
    /\ UNCHANGED walkerVars

NextGenerate ==
    \/ GetDbCollectionsAndFields
    \/ CreateDatasetCollections
    \/ GenerateWrite

SpecGenerate == InitGenerate /\ [][NextGenerate]_vars

\* The names in a sequence.
Range(q) == { q[i] : i \in 1..Len(q) }

\* C14: the mapping has no key information_schema and, for the mysql dialect,
\* no key mysql, performance_schema or sys; every other schema name of the
\* inspector is a key, and under it every table of the schema has the key
\* <schema>.<table> with the inspector's columns in their order.
C14_SystemSchemasExcluded ==
    (call.fn = "generate_dataset" /\ call.at > 101)
        => LET engine == call.db_engine
               db_tables == call.db_collections
               names == Range(engine.schema_names)
               hidden == IF engine.dialect = "mysql"
                         THEN SystemSchemas
                         ELSE {"information_schema"}
           IN  /\ "information_schema" \notin Keys(db_tables)
               /\ engine.dialect = "mysql"
                  => Keys(db_tables) \cap {"mysql", "performance_schema", "sys"} = {}
               /\ Keys(db_tables) = names \ hidden
               /\ Len(db_tables) = Cardinality(names \ hidden)
               /\ \A schema \in Keys(db_tables) :
                     LET tables == get_table_names(engine, schema)
                         d == Lookup(db_tables, schema)
                     IN  /\ Keys(d) = { schema \o "." \o tables[t] : t \in 1..Len(tables) }
                         /\ Len(d) = Len(tables)
                         /\ \A t \in 1..Len(tables) :
                               Lookup(d, schema \o "." \o tables[t]) = engine.columns

\* C14 witness: a postgresql inspector listed information_schema, mysql and
\* public; the mapping has the keys mysql and public, and under public the
\* table public.users with the columns id and email.
C14_Witness ==
    /\ call.fn = "generate_dataset"
    /\ call.at > 101
    /\ call.db_engine.dialect = "postgresql"
    /\ call.db_engine.schema_names = <<"information_schema", "mysql", "public">>
    /\ Keys(call.db_collections) = {"mysql", "public"}
    /\ "public.users" \in Keys(Lookup(call.db_collections, "public"))
    /\ Lookup(Lookup(call.db_collections, "public"), "public.users") = <<"id", "email">>

\* C15: there is one dataset per schema, with the schema name as key and name;
\* it has one collection per table, named by the qualified table name, which has
\* one field per column in column order; every description is non-empty and
\* every field has an empty label list. generate_dataset writes that list.
C15_OneDatasetPerSchema ==
    (call.fn = "generate_dataset" /\ call.at > 102)
        => LET db_tables == call.db_collections
               ds == call.collections
           IN  /\ Len(ds) = Len(db_tables)
               /\ call.at > 103 => call.file = ds
               /\ \A s \in 1..Len(ds) :
                     LET schema == db_tables[s].value
                     IN  /\ ds[s].fides_key = db_tables[s].key
                         /\ ds[s].name = db_tables[s].key
                         /\ ds[s].description # ""
                         /\ Len(ds[s].collections) = Len(schema)
                         /\ \A t \in 1..Len(schema) :
                               LET collection == ds[s].collections[t]
                                   columns == schema[t].value
                               IN  /\ collection.name = schema[t].key
                                   /\ collection.description # ""
                                   /\ Len(collection.fields) = Len(columns)
                                   /\ \A c \in 1..Len(columns) :
                                         /\ collection.fields[c].name = columns[c]
                                         /\ collection.fields[c].description # ""
                                         /\ collection.fields[c].data_categories = <<>>

\* C15 witness: the manifest written for one schema public with one table
\* users with the columns id and email.
C15_Witness ==
    /\ call.fn = "generate_dataset"
    /\ call.at = 104
    /\ Len(call.file) = 1
    /\ call.file[1].fides_key = "public"
    /\ Len(call.file[1].collections) = 1
    /\ call.file[1].collections[1].name = "public.users"
    /\ Len(call.file[1].collections[1].fields) = 2
    /\ call.file[1].collections[1].fields[1].name = "id"
    /\ call.file[1].collections[1].fields[2].name = "email"
    /\ call.file[1].collections[1].fields[2].data_categories = <<>>

====
